---- MODULE Spec2Model ----
(***************************************************************************)
(* A model of trending.py: the trend class (construction, load_data, calc, *)
(* zvalue) and the decayed rolling z-score engine (rolling_zscore).        *)
(*                                                                         *)
(* Python floats are IEEE-754 binary64 numbers.  The scores are modelled   *)
(* with that arithmetic (round to nearest, ties to even), not with reals:  *)
(* the sign of sq_average - avg ** 2 and the value of round(sqrt(..)) are  *)
(* decided by rounding.  Significands are naturals of 53 bits, kept as     *)
(* little-endian sequences of 14-bit limbs because TLC's integers have 32  *)
(* bits.  Exponents stay far from the binary64 limits for the inputs of    *)
(* the model, so overflow, subnormals and NaN never arise; -0.0 is         *)
(* identified with 0.0 (sqrt, == and the sort do not tell them apart).     *)
(***************************************************************************)
EXTENDS Integers, Sequences, FiniteSets, TLC

VARIABLES
    \* the environment: the event file, the arguments the application passes
    \* to trend(), the wall clock in half days
    csv, args, clock,
    \* the trend object: position of the run, and its fields
    pc, decay, int_days, max_length, item_list, data,
    \* locals: the date load_data read; calc's df_trend; the vector the last
    \* zvalue built and whether it called rolling_zscore
    today, df_trend, vec, call,
    \* what calc returned or raised, and what the run before returned
    table, exc, prev,
    \* rolling_zscore, run on its own: arguments, locals, position, result
    zdata, zwin, zdecay, avg, squared_average, trends, stds, zi, zj, zpc, zret

pvars == <<csv, args, clock, pc, decay, int_days, max_length, item_list, data,
           today, df_trend, vec, call, table, exc, prev>>

zvars == <<zdata, zwin, zdecay, avg, squared_average, trends, stds, zi, zj, zpc, zret>>

vars == <<pvars, zvars>>

Max(a, b) == IF a >= b THEN a ELSE b

Min(a, b) == IF a <= b THEN a ELSE b

Abs(n) == IF n < 0 THEN -n ELSE n

----------------------------------------------------------------------------
(* Naturals of any size: little-endian limbs, no zero limb on top, 0 = <<>> *)

Base == 2^14

Limb(a, i) == IF i <= Len(a) THEN a[i] ELSE 0

RECURSIVE BNTrim(_)
BNTrim(a) ==
    IF a = <<>> THEN a
    ELSE IF a[Len(a)] = 0 THEN BNTrim(SubSeq(a, 1, Len(a) - 1))
    ELSE a

RECURSIVE BNFromInt(_)
BNFromInt(n) == IF n = 0 THEN <<>> ELSE <<n % Base>> \o BNFromInt(n \div Base)

RECURSIVE BNAddFrom(_, _, _, _)
BNAddFrom(a, b, i, c) ==
    IF i > Len(a) /\ i > Len(b)
    THEN IF c = 0 THEN <<>> ELSE <<c>>
    ELSE LET s == Limb(a, i) + Limb(b, i) + c
         IN  <<s % Base>> \o BNAddFrom(a, b, i + 1, s \div Base)

BNAdd(a, b) == BNAddFrom(a, b, 1, 0)

RECURSIVE BNSubFrom(_, _, _, _)
BNSubFrom(a, b, i, br) ==
    IF i > Len(a) THEN <<>>
    ELSE LET d == a[i] - Limb(b, i) - br
         IN  <<IF d < 0 THEN d + Base ELSE d>>
                 \o BNSubFrom(a, b, i + 1, IF d < 0 THEN 1 ELSE 0)

\* a - b for a >= b
BNSub(a, b) == BNTrim(BNSubFrom(a, b, 1, 0))

RECURSIVE BNCmpFrom(_, _, _)
BNCmpFrom(a, b, i) ==
    IF i = 0 THEN 0
    ELSE IF a[i] < b[i] THEN -1
    ELSE IF a[i] > b[i] THEN 1
    ELSE BNCmpFrom(a, b, i - 1)

\* -1, 0, 1 as a < b, a = b, a > b
BNCmp(a, b) ==
    IF Len(a) < Len(b) THEN -1
    ELSE IF Len(a) > Len(b) THEN 1
    ELSE BNCmpFrom(a, b, Len(a))

RECURSIVE BNMulSmallFrom(_, _, _, _)
BNMulSmallFrom(a, d, i, c) ==
    IF i > Len(a)
    THEN IF c = 0 THEN <<>> ELSE <<c>>
    ELSE LET p == a[i] * d + c
         IN  <<p % Base>> \o BNMulSmallFrom(a, d, i + 1, p \div Base)

\* a * d for 0 <= d < Base
BNMulSmall(a, d) == IF d = 0 THEN <<>> ELSE BNMulSmallFrom(a, d, 1, 0)

BNShlLimbs(a, q) == IF a = <<>> THEN a ELSE [i \in 1..q |-> 0] \o a

\* a * 2^k
BNShl(a, k) == BNShlLimbs(BNMulSmall(a, 2^(k % 14)), k \div 14)

RECURSIVE BNMulFrom(_, _, _)
BNMulFrom(a, b, j) ==
    IF j > Len(b) THEN <<>>
    ELSE BNAdd(BNShlLimbs(BNMulSmall(a, b[j]), j - 1), BNMulFrom(a, b, j + 1))

BNMul(a, b) == BNMulFrom(a, b, 1)

RECURSIVE BNDivSmallFrom(_, _, _, _)
BNDivSmallFrom(a, d, i, r) ==
    IF i = 0 THEN [q |-> <<>>, r |-> r]
    ELSE LET cur  == r * Base + a[i]
             rest == BNDivSmallFrom(a, d, i - 1, cur % d)
         IN  [q |-> rest.q \o <<cur \div d>>, r |-> rest.r]

\* quotient and remainder of a by d, 0 < d < Base
BNDivSmall(a, d) ==
    LET x == BNDivSmallFrom(a, d, Len(a), 0)
    IN  [q |-> BNTrim(x.q), r |-> x.r]

\* a \div 2^k
BNShr(a, k) ==
    IF k \div 14 >= Len(a) THEN <<>>
    ELSE BNDivSmall(SubSeq(a, (k \div 14) + 1, Len(a)), 2^(k % 14)).q

RECURSIVE BitLenSmall(_)
BitLenSmall(n) == IF n = 0 THEN 0 ELSE 1 + BitLenSmall(n \div 2)

BNBitLen(a) == IF a = <<>> THEN 0 ELSE 14 * (Len(a) - 1) + BitLenSmall(a[Len(a)])

\* -1, 0, 1 as a * 2^ea is below, equal to, above b * 2^eb
BNCmpScaled(a, ea, b, eb) ==
    LET e0 == Min(ea, eb)
    IN  BNCmp(BNShl(a, ea - e0), BNShl(b, eb - e0))

----------------------------------------------------------------------------
(* binary64: [s, m, e] is (-1)^s * m * 2^e with 2^52 <= m < 2^53, or m = 0 *)

Prec == 53

FZero == [s |-> 0, m |-> <<>>, e |-> 0]

\* -inf (np.inf negated); only ever compared, never computed with
NegInf == [s |-> 1, m |-> <<>>, e |-> 1]

\* the binary64 nearest to (-1)^s * M * 2^E, ties to the even significand:
\* M is cut to its top 53 bits q, and q goes up by one when the bits cut off
\* are more than half a unit of q, or exactly half and q is odd
FRoundCarry(s, q, E) ==
    IF BNBitLen(q) > Prec THEN [s |-> s, m |-> BNShr(q, 1), e |-> E + 1]
    ELSE [s |-> s, m |-> q, e |-> E]

FRoundUp(s, q, c, E) ==
    FRoundCarry(s, IF c = 1 \/ (c = 0 /\ q[1] % 2 = 1) THEN BNAdd(q, <<1>>) ELSE q, E)

FRoundCut(s, M, E, k, q) ==
    FRoundUp(s, q, BNCmp(BNSub(M, BNShl(q, k)), BNShl(<<1>>, k - 1)), E + k)

FRoundLen(s, M, E, L) ==
    IF L <= Prec THEN [s |-> s, m |-> BNShl(M, Prec - L), e |-> E - (Prec - L)]
    ELSE FRoundCut(s, M, E, L - Prec, BNShr(M, L - Prec))

FRound(s, M, E) == IF M = <<>> THEN FZero ELSE FRoundLen(s, M, E, BNBitLen(M))

FIsZero(x) == x.m = <<>>

FIsNeg(x) == ~FIsZero(x) /\ x.s = 1

FNeg(x) == IF FIsZero(x) THEN x ELSE [x EXCEPT !.s = 1 - x.s]

FMul(x, y) == FRound((x.s + y.s) % 2, BNMul(x.m, y.m), x.e + y.e)

\* X and Y are the significands at the common exponent e0, c compares them
FAddMag(x, y, X, Y, c, e0) ==
    FRound(IF x.s = y.s \/ c = 1 THEN x.s ELSE y.s,
           IF x.s = y.s THEN BNAdd(X, Y)
           ELSE IF c >= 0 THEN BNSub(X, Y) ELSE BNSub(Y, X),
           e0)

FAddCmp(x, y, X, Y, e0) == FAddMag(x, y, X, Y, BNCmp(X, Y), e0)

FAddAligned(x, y, e0) ==
    FAddCmp(x, y, BNShl(x.m, x.e - e0), BNShl(y.m, y.e - e0), e0)

FAdd(x, y) ==
    IF FIsZero(x) THEN y
    ELSE IF FIsZero(y) THEN x
    ELSE FAddAligned(x, y, Min(x.e, y.e))

FSub(x, y) == FAdd(x, FNeg(y))

\* float(n) for a Python int n
FromInt(n) == FRound(IF n < 0 THEN 1 ELSE 0, BNFromInt(Abs(n)), 0)

\* x / n for a Python int 0 < n < Base: the quotient to 55 bits or more, with
\* a sticky bit for the remainder, then rounded once
FDivQuot(x, d) ==
    FRound(x.s, BNAdd(BNShl(d.q, 1), IF d.r = 0 THEN <<>> ELSE <<1>>), x.e - 18)

FDivInt(x, n) == FDivQuot(x, BNDivSmall(BNShl(x.m, 17), n))

FSign(d) == IF FIsZero(d) THEN 0 ELSE IF d.s = 1 THEN -1 ELSE 1

\* -1, 0, 1 as x < y, x = y, x > y (finite x, y)
FCmp(x, y) == FSign(FSub(x, y))

\* round(sqrt(x)) for x >= 0: math.sqrt is correctly rounded, and round() of
\* a float goes to the nearest int, ties to the even one.  With s the integer
\* square root, y = sqrt(x) rounded lies in [s, s + 1]; y is above h = s + 1/2
\* exactly when x is above the square of the midpoint of h and the next
\* binary64, and below h when x is below the square of the midpoint of h and
\* the binary64 before it (x is never the square of a midpoint: that needs
\* more than 53 bits).
RECURSIVE ISqrtFrom(_, _)
ISqrtFrom(x, k) ==
    IF BNCmpScaled(BNFromInt((k + 1) * (k + 1)), 0, x.m, x.e) = 1 THEN k
    ELSE ISqrtFrom(x, k + 1)

\* hi * 2^ehi and lo * 2^elo are the midpoints above and below h
SqrtDecide(x, s, hi, ehi, lo, elo) ==
    IF BNCmpScaled(x.m, x.e, BNMul(hi, hi), 2 * ehi) = 1 THEN s + 1
    ELSE IF BNCmpScaled(x.m, x.e, BNMul(lo, lo), 2 * elo) = -1 THEN s
    ELSE IF s % 2 = 0 THEN s ELSE s + 1

\* h = Mh * 2^eh; the binary64 before h is half as far as the one after it
\* when h is a power of two (s = 0, h = 1/2)
SqrtMid(x, s, Mh, eh) ==
    SqrtDecide(x, s, BNAdd(BNShl(Mh, 1), <<1>>), eh - 1,
               BNSub(BNShl(Mh, IF s = 0 THEN 2 ELSE 1), <<1>>),
               IF s = 0 THEN eh - 2 ELSE eh - 1)

SqrtHalf(x, s, sh) == SqrtMid(x, s, BNShl(BNFromInt(2 * s + 1), sh), -1 - sh)

SqrtAt(x, s) == SqrtHalf(x, s, Prec - BitLenSmall(2 * s + 1))

PyRoundSqrt(x) == IF FIsZero(x) THEN 0 ELSE SqrtAt(x, ISqrtFrom(x, 0))

\* a float literal n/d (0.1 is 1/10): the binary64 nearest to it
FromRatio(n, d) == FDivInt(FromInt(n), d)

----------------------------------------------------------------------------
(* rolling_zscore *)

\* average * decay + point * (1 - decay), and the same for the squares
Blend(p, p2, average, sq_average, d, w) ==
    [avg |-> FAdd(FMul(average, d), FMul(p, w)),
     sq  |-> FAdd(FMul(sq_average, d), FMul(p2, w))]

\* add_to_history(point, average, sq_average), with the decay it closes over
add_to_history(point, average, sq_average, d) ==
    Blend(FromInt(point), FromInt(point * point), average, sq_average, d,
          FSub(FromInt(1), d))

\* a variant that keeps the value avg was seeded with
RadicandSeed(avg_now, sq_average) ==
    FSub(sq_average, FMul(FromInt(zdata[1]), FromInt(zdata[1])))

\* the argument of sqrt in calculate_zscore.  avg is not a parameter there: it
\* is the variable of the enclosing rolling_zscore, read when the call runs.
Radicand(avg_now, sq_average) == FSub(sq_average, FMul(avg_now, avg_now))

\* a variant that scores the size of the deviation
ZScoreAbs(dev, std) ==
    [exc |-> "", std |-> std,
     z |-> IF std = 0 THEN [dev EXCEPT !.s = 0] ELSE FDivInt([dev EXCEPT !.s = 0], std)]

\* value - average, or (value - average) / std
ZScore(dev, std) ==
    [exc |-> "", std |-> std, z |-> IF std = 0 THEN dev ELSE FDivInt(dev, std)]

\* sqrt of a negative number raises ValueError (math domain error)
ZScoreAt(x, average, value) ==
    IF FIsNeg(x) THEN [exc |-> "ValueError", std |-> 0, z |-> FZero]
    ELSE ZScore(FSub(FromInt(value), average), PyRoundSqrt(x))

\* calculate_zscore(average, sq_average, value), with the avg it closes over
calculate_zscore(avg_now, average, sq_average, value) ==
    ZScoreAt(Radicand(avg_now, sq_average), average, value)

RECURSIVE FSum(_)
FSum(ts) == IF ts = <<>> THEN FZero ELSE FAdd(FSum(SubSeq(ts, 1, Len(ts) - 1)), ts[Len(ts)])

\* sum(trends) / len(trends) if len(trends) != 0 else 0
MeanOrZero(ts) == IF Len(ts) # 0 THEN FDivInt(FSum(ts), Len(ts)) ELSE FZero

RECURSIVE HistFold(_, _, _, _)
HistFold(data_, i, st, d) ==
    IF i > Len(data_) THEN st
    ELSE HistFold(data_, i + 1, add_to_history(data_[i], st.avg, st.sq, d), d)

RECURSIVE ObsFold(_, _, _, _, _)
RECURSIVE ObsNext(_, _, _, _, _, _)
ObsFold(win, j, st, d, ts) ==
    IF j > Len(win) THEN [exc |-> "", trends |-> ts]
    ELSE ObsNext(win, j, st, d, ts, calculate_zscore(st.avg, st.avg, st.sq, win[j]))

ObsNext(win, j, st, d, ts, r) ==
    IF r.exc # "" THEN [exc |-> r.exc, trends |-> ts]
    ELSE ObsFold(win, j + 1, add_to_history(win[j], st.avg, st.sq, d), d, Append(ts, r.z))

ZResult(o) ==
    IF o.exc # "" THEN [exc |-> o.exc, val |-> FZero]
    ELSE [exc |-> "", val |-> MeanOrZero(o.trends)]

\* rolling_zscore(data, observed_window, decay) as one call: the score, or the
\* exception it raises (data[0] of an empty list raises IndexError)
rolling_zscore(data_, observed_window, d) ==
    IF data_ = <<>> THEN [exc |-> "IndexError", val |-> FZero]
    ELSE ZResult(ObsFold(observed_window, 1,
                         HistFold(data_, 2, [avg |-> FromInt(data_[1]),
                                             sq  |-> FromInt(data_[1] * data_[1])], d),
                         d, <<>>))

----------------------------------------------------------------------------
(* The trend object.  A row of the event file is [item_id, user_id,        *)
(* interaction_time]; item and user ids are numbers, interaction_time is a *)
(* date (a day number: a timestamp at midnight).  The clock counts half    *)
(* days, so clock \div 2 is the date and clock % 2 the half of the day.    *)
(* pd.datetime is the pandas of the code's time (before 2.0).              *)

None == "None"

NaN == "nan"

\* Series.astype(int) of a quotient of two ints: truncation toward zero
TruncDiv(a, b) == IF a >= 0 THEN a \div b ELSE -((-a) \div b)

\* a variant that subtracts now() itself, not its date
DaysSinceNow(day, c) == (2 * day - c) \div 2

\* (data[interaction_time] - pd.datetime.now().date()).dt.days for one row:
\* whole days from today's midnight to the row's timestamp
DaysSince(day, c) == day - (c \div 2)

\* the column data['diff'], row by row
DiffColumn(rows, c, n) ==
    [i \in 1..Len(rows) |-> TruncDiv(DaysSince(rows[i].interaction_time, c), n)]

SeqMin(q) == CHOOSE x \in {q[i] : i \in 1..Len(q)} : \A j \in 1..Len(q) : x <= q[j]

\* a variant that takes the latest bucket for the oldest
MaxLengthFromLatest(diffs) ==
    IF diffs = <<>> THEN NaN
    ELSE -(CHOOSE x \in {diffs[i] : i \in 1..Len(diffs)} : \A j \in 1..Len(diffs) : x >= diffs[j])

\* -data['diff'].min(); the minimum of an empty column is nan
MaxLength(diffs) == IF diffs = <<>> THEN NaN ELSE -SeqMin(diffs)

\* a variant with nunique() for count()
UserCountDistinct(rows, diffs, key) ==
    Cardinality({rows[i].user_id : i \in {j \in 1..Len(rows) :
                                            rows[j].item_id = key[1] /\ diffs[j] = key[2]}})

\* groupby([item_col, 'diff'])[user_col].count(): the rows of the group
UserCount(rows, diffs, key) ==
    Cardinality({i \in 1..Len(rows) : rows[i].item_id = key[1] /\ diffs[i] = key[2]})

GroupKeys(rows, diffs) == {<<rows[i].item_id, diffs[i]>> : i \in 1..Len(rows)}

KeyMin(K) == CHOOSE k \in K : \A j \in K : k[1] < j[1] \/ (k[1] = j[1] /\ k[2] <= j[2])

\* groupby sorts the group keys
RECURSIVE SortKeys(_)
SortKeys(K) == IF K = {} THEN <<>> ELSE <<KeyMin(K)>> \o SortKeys(K \ {KeyMin(K)})

GroupRows(rows, diffs, keys) ==
    [i \in 1..Len(keys) |-> [item_id    |-> keys[i][1],
                             lag        |-> keys[i][2],
                             user_count |-> UserCount(rows, diffs, keys[i])]]

\* df_group, with 'diff' renamed to 'lag'
DfGroup(rows, diffs) == GroupRows(rows, diffs, SortKeys(GroupKeys(rows, diffs)))

\* df_group[item_col].unique(): the items in order of first appearance
RECURSIVE Unique(_, _)
Unique(df, seen) ==
    IF df = <<>> THEN <<>>
    ELSE IF df[1].item_id \in seen THEN Unique(Tail(df), seen)
    ELSE <<df[1].item_id>> \o Unique(Tail(df), seen \cup {df[1].item_id})

\* a variant that refuses a decay outside (0, 1); d is a binary64
trend_init_validating(d, n) ==
    IF FIsZero(d) \/ FIsNeg(d) \/ FCmp(d, FromInt(1)) >= 0
    THEN [exc |-> "ValueError", max_length |-> None, decay |-> FZero, int_days |-> 0]
    ELSE [exc |-> "", max_length |-> None, decay |-> d, int_days |-> n]

\* trend.__init__: the fields of the new object
trend_init(d, n) == [exc |-> "", max_length |-> None, decay |-> d, int_days |-> n]

\* df[df['item_id'] == item]
RECURSIVE FilterItem(_, _)
FilterItem(df, item) ==
    IF df = <<>> THEN <<>>
    ELSE IF df[1].item_id = item THEN <<df[1]>> \o FilterItem(Tail(df), item)
    ELSE FilterItem(Tail(df), item)

\* a variant one element short
ZeroVecShort(length) == [i \in 1..length |-> 0]

\* [0] * (length + 1): the empty list when length + 1 <= 0
ZeroVec(length) == [i \in 1..(length + 1) |-> 0]

\* vec[i] = value for a Python index i: negative indices count from the end,
\* an index outside -len..len-1 raises IndexError
ListSet(v, i, value) ==
    IF i >= Len(v) \/ i < -Len(v) THEN [exc |-> "IndexError", vec |-> v]
    ELSE [exc |-> "", vec |-> [v EXCEPT ![IF i >= 0 THEN i + 1 ELSE Len(v) + i + 1] = value]]

\* for i, j in zip(loc, range(len(value))): vec[i] = value[j]
RECURSIVE WriteCounts(_, _, _, _)
RECURSIVE WriteNext(_, _, _, _)
WriteCounts(v, rows, j, length) ==
    IF j > Len(rows) THEN [exc |-> "", vec |-> v]
    ELSE WriteNext(ListSet(v, length + rows[j].lag, rows[j].user_count), rows, j, length)

WriteNext(w, rows, j, length) ==
    IF w.exc # "" THEN w ELSE WriteCounts(w.vec, rows, j + 1, length)

\* vec[:-1] and vec[-1:]
AllButLast(v) == SubSeq(v, 1, Len(v) - 1)

LastOnly(v) == SubSeq(v, Len(v), Len(v))

ZValueResult(r, v) == [exc |-> r.exc, score |-> r.val, vec |-> v, call |-> TRUE]

\* the else branch of zvalue once the vector is written
ZValueCall(w, d) ==
    IF w.exc # "" THEN [exc |-> w.exc, score |-> FZero, vec |-> w.vec, call |-> FALSE]
    ELSE ZValueResult(rolling_zscore(AllButLast(w.vec), LastOnly(w.vec), d), w.vec)

ZValueRows(rows, length, d) ==
    IF Len(rows) = 1
    THEN [exc |-> "", score |-> NegInf, vec |-> ZeroVec(length), call |-> FALSE]
    ELSE ZValueCall(WriteCounts(ZeroVec(length), rows, 1, length), d)

\* zvalue(df, item, length), with self.decay: the score or the exception, the
\* vector as zvalue left it, and whether rolling_zscore was called
zvalue(df, item, length, d) == ZValueRows(FilterItem(df, item), length, d)

\* a < b for scores, -inf below every float
ScoreLess(a, b) ==
    IF b = NegInf THEN FALSE
    ELSE IF a = NegInf THEN TRUE
    ELSE FCmp(a, b) = -1

\* sort_values("trending_score", ascending=False): pandas reverses the column,
\* sorts it ascending and reverses the result; numpy sorts an array this
\* short by insertion, so rows of equal score keep their order
RECURSIVE InsertDesc(_, _)
InsertDesc(sorted, row) ==
    IF sorted = <<>> THEN <<row>>
    ELSE IF ScoreLess(sorted[1].trending_score, row.trending_score)
         THEN <<row>> \o sorted
         ELSE <<sorted[1]>> \o InsertDesc(Tail(sorted), row)

RECURSIVE InsertAsc(_, _)
InsertAsc(sorted, row) ==
    IF sorted = <<>> THEN <<row>>
    ELSE IF ScoreLess(row.trending_score, sorted[1].trending_score)
         THEN <<row>> \o sorted
         ELSE <<sorted[1]>> \o InsertAsc(Tail(sorted), row)

RECURSIVE SortAsc(_, _)
SortAsc(df, sorted) ==
    IF df = <<>> THEN sorted ELSE SortAsc(Tail(df), InsertAsc(sorted, df[1]))

\* a variant with the default ascending=True
sort_values_ascending(df) == SortAsc(df, <<>>)

RECURSIVE SortDesc(_, _)
SortDesc(df, sorted) ==
    IF df = <<>> THEN sorted ELSE SortDesc(Tail(df), InsertDesc(sorted, df[1]))

sort_values(df) == SortDesc(df, <<>>)

----------------------------------------------------------------------------
(* The runs of the application: trend(), load_data, calc, and once more     *)

SeqsUpTo(S, n) == UNION {[1..k -> S] : k \in 0..n}

Items == {1, 2}

Users == {1, 2}

\* the dates of the events, counted from the date of the first run (date 0):
\* two days back to one day ahead
Days == (-2)..1

MaxEvents == 3

MaxClock == 2

Rows == [item_id : Items, user_id : Users, interaction_time : Days]

RowLeq(r, q) ==
    \/ r.interaction_time < q.interaction_time
    \/ /\ r.interaction_time = q.interaction_time
       /\ \/ r.item_id < q.item_id
          \/ r.item_id = q.item_id /\ r.user_id <= q.user_id

\* the event files tried: logs in time order
Logs == {l \in SeqsUpTo(Rows, MaxEvents) : \A i \in 1..(Len(l) - 1) : RowLeq(l[i], l[i + 1])}

\* the decay arguments tried, as literals n/d: 0.1 (the default) and 1.5
DecayArgs == {<<1, 10>>, <<3, 2>>}

IntervalArgs == {1, 2}

\* rolling_zscore is not run on its own in these runs
ZIdle ==
    /\ zdata = <<>>
    /\ zwin = <<>>
    /\ zdecay = FZero
    /\ avg = FZero
    /\ squared_average = FZero
    /\ trends = <<>>
    /\ stds = <<>>
    /\ zi = 0
    /\ zj = 0
    /\ zpc = "idle"
    /\ zret = FZero

Init ==
    /\ csv \in Logs
    /\ args \in [decay : DecayArgs, interval_days : IntervalArgs]
    /\ clock = 0
    /\ pc = "new"
    /\ decay = FZero
    /\ int_days = 0
    /\ max_length = None
    /\ item_list = <<>>
    /\ data = <<>>
    /\ today = 0
    /\ df_trend = <<>>
    /\ vec = <<>>
    /\ call = FALSE
    /\ table = <<>>
    /\ exc = ""
    /\ prev = <<>>
    /\ ZIdle

\* trend_obj = trend(decay=.., interval_days=..)
Construct ==
    /\ pc = "new"
    /\ \E o \in {trend_init(FromRatio(args.decay[1], args.decay[2]), args.interval_days)} :
           /\ pc' = IF o.exc = "" THEN "constructed" ELSE "rejected"
           /\ exc' = o.exc
           /\ decay' = o.decay
           /\ int_days' = o.int_days
           /\ max_length' = o.max_length
    /\ UNCHANGED <<csv, args, clock, item_list, data, today, df_trend, vec, call, table, prev>>
    /\ UNCHANGED zvars

\* time passes between the two runs (only load_data reads the clock, and the
\* dates of the file are counted from the date of the first run)
Tick ==
    /\ pc = "returned"
    /\ prev = <<>>
    /\ clock < MaxClock
    /\ clock' = clock + 1
    /\ UNCHANGED <<csv, args, pc, decay, int_days, max_length, item_list, data,
                   today, df_trend, vec, call, table, exc, prev>>
    /\ UNCHANGED zvars

\* trend_obj.load_data(csv)
LoadData ==
    /\ pc = "constructed"
    /\ \E diffs \in {DiffColumn(csv, clock, int_days)} :
           /\ max_length' = MaxLength(diffs)
           /\ data' = DfGroup(csv, diffs)
           /\ item_list' = Unique(DfGroup(csv, diffs), {})
    /\ today' = clock \div 2
    /\ pc' = "loaded"
    /\ UNCHANGED <<csv, args, clock, decay, int_days, df_trend, vec, call, table, exc, prev>>
    /\ UNCHANGED zvars

\* calc, one turn of its loop: zvalue returns and the score is appended, or
\* zvalue raises and so does calc
CalcItem ==
    /\ pc = "loaded"
    /\ Len(df_trend) < Len(item_list)
    /\ \E r \in {zvalue(data, item_list[Len(df_trend) + 1], max_length, decay)} :
           /\ df_trend' = IF r.exc # "" THEN df_trend
                          ELSE Append(df_trend, [item |-> item_list[Len(df_trend) + 1],
                                                 trending_score |-> r.score])
           /\ pc' = IF r.exc # "" THEN "raised" ELSE pc
           /\ exc' = r.exc
           /\ vec' = r.vec
           /\ call' = r.call
    /\ UNCHANGED <<csv, args, clock, decay, int_days, max_length, item_list, data,
                   today, table, prev>>
    /\ UNCHANGED zvars

\* calc, after its loop: the frame of the scores, sorted, is returned
CalcReturn ==
    /\ pc = "loaded"
    /\ Len(df_trend) = Len(item_list)
    /\ df_trend # <<>>
    /\ table' = sort_values(df_trend)
    /\ pc' = "returned"
    /\ UNCHANGED <<csv, args, clock, decay, int_days, max_length, item_list, data,
                   today, df_trend, vec, call, exc, prev>>
    /\ UNCHANGED zvars

\* calc, after its loop: pd.DataFrame([]) has no column "trending_score", and
\* sort_values raises KeyError
CalcReturnRaises ==
    /\ pc = "loaded"
    /\ Len(df_trend) = Len(item_list)
    /\ df_trend = <<>>
    /\ exc' = "KeyError"
    /\ pc' = "raised"
    /\ UNCHANGED <<csv, args, clock, decay, int_days, max_length, item_list, data,
                   today, df_trend, vec, call, table, prev>>
    /\ UNCHANGED zvars

\* the application is run once more on the same file with the same arguments
Rerun ==
    /\ pc = "returned"
    /\ prev = <<>>
    /\ prev' = <<[today |-> today, table |-> table]>>
    /\ pc' = "new"
    /\ item_list' = <<>>
    /\ data' = <<>>
    /\ df_trend' = <<>>
    /\ vec' = <<>>
    /\ call' = FALSE
    /\ table' = <<>>
    /\ UNCHANGED <<csv, args, clock, decay, int_days, max_length, today, exc>>
    /\ UNCHANGED zvars

Next ==
    \/ Construct
    \/ Tick
    \/ LoadData
    \/ CalcItem
    \/ CalcReturn
    \/ CalcReturnRaises
    \/ Rerun

Spec == Init /\ [][Next]_vars

----------------------------------------------------------------------------
(* rolling_zscore step by step, on histories and windows drawn from bounded *)
(* sets                                                                     *)

MaxCount == 3

MaxHist == 2

MaxWin == 1

Counts == 0..MaxCount

\* the decay literals tried: 0.2 and 0.5
DecayTenths == {2, 5}

\* the trend object takes no part in these runs
PIdle ==
    /\ csv = <<>>
    /\ args = <<>>
    /\ clock = 0
    /\ pc = "idle"
    /\ decay = FZero
    /\ int_days = 0
    /\ max_length = None
    /\ item_list = <<>>
    /\ data = <<>>
    /\ today = 0
    /\ df_trend = <<>>
    /\ vec = <<>>
    /\ call = FALSE
    /\ table = <<>>
    /\ exc = ""
    /\ prev = <<>>

ZInit ==
    /\ PIdle
    /\ \E t \in DecayTenths : zdecay = FromRatio(t, 10)
    /\ zdata \in SeqsUpTo(Counts, MaxHist)
    /\ zwin \in SeqsUpTo(Counts, MaxWin)
    /\ avg = FZero
    /\ squared_average = FZero
    /\ trends = <<>>
    /\ stds = <<>>
    /\ zi = 1
    /\ zj = 1
    /\ zpc = "call"
    /\ zret = FZero

\* avg = float(data[0]); squared_average = float(data[0] ** 2)
ZSeed ==
    /\ zpc = "call"
    /\ zdata # <<>>
    /\ avg' = FromInt(zdata[1])
    /\ squared_average' = FromInt(zdata[1] * zdata[1])
    /\ zi' = 2
    /\ zpc' = "run"
    /\ UNCHANGED <<zdata, zwin, zdecay, trends, stds, zj, zret>>
    /\ UNCHANGED pvars

\* data[0] of an empty history
ZSeedRaises ==
    /\ zpc = "call"
    /\ zdata = <<>>
    /\ zpc' = "IndexError"
    /\ UNCHANGED <<zdata, zwin, zdecay, avg, squared_average, trends, stds, zi, zj, zret>>
    /\ UNCHANGED pvars

\* for point in data[1:]
ZHist ==
    /\ zpc = "run"
    /\ zi <= Len(zdata)
    /\ \E st \in {add_to_history(zdata[zi], avg, squared_average, zdecay)} :
           avg' = st.avg /\ squared_average' = st.sq
    /\ zi' = zi + 1
    /\ UNCHANGED <<zdata, zwin, zdecay, trends, stds, zj, zpc, zret>>
    /\ UNCHANGED pvars

\* for point in observed_window: score it, then absorb it; sqrt may raise in
\* calculate_zscore, and the call ends there
ZObs ==
    /\ zpc = "run"
    /\ zi > Len(zdata)
    /\ zj <= Len(zwin)
    /\ \E r \in {calculate_zscore(avg, avg, squared_average, zwin[zj])} :
           IF r.exc # ""
           THEN /\ zpc' = r.exc
                /\ UNCHANGED <<avg, squared_average, trends, stds, zj>>
           ELSE /\ trends' = Append(trends, r.z)
                /\ stds' = Append(stds, [avg |-> avg, sq |-> squared_average, std |-> r.std])
                /\ \E st \in {add_to_history(zwin[zj], avg, squared_average, zdecay)} :
                       avg' = st.avg /\ squared_average' = st.sq
                /\ zj' = zj + 1
                /\ UNCHANGED zpc
    /\ UNCHANGED <<zdata, zwin, zdecay, zi, zret>>
    /\ UNCHANGED pvars

ZReturn ==
    /\ zpc = "run"
    /\ zi > Len(zdata)
    /\ zj > Len(zwin)
    /\ zret' = MeanOrZero(trends)
    /\ zpc' = "done"
    /\ UNCHANGED <<zdata, zwin, zdecay, avg, squared_average, trends, stds, zi, zj>>
    /\ UNCHANGED pvars

ZNext == ZSeed \/ ZSeedRaises \/ ZHist \/ ZObs \/ ZReturn

SpecZ == ZInit /\ [][ZNext]_vars

\* the step-by-step run and the one-call operator agree
ZAgree ==
    /\ zpc = "done" => rolling_zscore(zdata, zwin, zdecay) = [exc |-> "", val |-> zret]
    /\ zpc \in {"IndexError", "ValueError"} => rolling_zscore(zdata, zwin, zdecay).exc = zpc

----------------------------------------------------------------------------
(* Properties of the runs of the application (Spec)                         *)

Loaded == pc \in {"loaded", "returned", "raised"}

\* the bucket of a row, from the date load_data read
Bucket(row) == TruncDiv(row.interaction_time - today, int_days)

RowsOf(item, lag) ==
    {i \in 1..Len(csv) : csv[i].item_id = item /\ Bucket(csv[i]) = lag}

\* the aggregated (item, bucket) points of an item in the whole file
PointsOf(item) == {Bucket(csv[i]) : i \in {j \in 1..Len(csv) : csv[j].item_id = item}}

IsFinite(score) == score # NegInf

\* C1: in the table calc returns, every item with exactly one aggregated
\* (item, bucket) point has score -inf, and no such item stands above an item
\* with a finite score.
C1_SentinelRankedLast ==
    pc = "returned" =>
        \A i \in 1..Len(table) :
            Cardinality(PointsOf(table[i].item)) = 1 =>
                /\ table[i].trending_score = NegInf
                /\ \A j \in (i + 1)..Len(table) : ~IsFinite(table[j].trending_score)

\* a table where the sort moved a single-point item below a scored one
C1_Witness ==
    /\ pc = "returned"
    /\ \E i, j \in 1..Len(table) :
           /\ i < j
           /\ table[j].item < table[i].item
           /\ IsFinite(table[i].trending_score)
           /\ Cardinality(PointsOf(table[j].item)) = 1
           /\ table[j].trending_score = NegInf

\* C2: with an event file of zero events, load_data and calc complete without
\* raising, and the table returned is empty.
C2_EmptyLogEmptyTable ==
    csv = <<>> => /\ pc # "raised"
                  /\ pc = "returned" => table = <<>>

\* C3, as claimed: the user_count of every (item, bucket) group is the number
\* of distinct users with an event for that item in that bucket.
C3_CountsDistinctUsers ==
    Loaded =>
        \A k \in 1..Len(data) :
            data[k].user_count =
                Cardinality({csv[i].user_id : i \in RowsOf(data[k].item_id, data[k].lag)})

\* C3, amended: there is one group for each (item, bucket) of the file, and
\* its user_count is the number of events (rows) of that item in that bucket:
\* a user with several events there is counted once for each.
C3_CountsEvents ==
    Loaded =>
        /\ \A k \in 1..Len(data) :
               data[k].user_count = Cardinality(RowsOf(data[k].item_id, data[k].lag))
        /\ \A i \in 1..Len(csv) :
               \E k \in 1..Len(data) :
                   data[k].item_id = csv[i].item_id /\ data[k].lag = Bucket(csv[i])
        /\ \A k, l \in 1..Len(data) :
               (data[k].item_id = data[l].item_id /\ data[k].lag = data[l].lag) => k = l

\* a group of three events of two users
C3_Witness ==
    /\ Loaded
    /\ \E k \in 1..Len(data) :
           /\ data[k].user_count = 3
           /\ Cardinality({csv[i].user_id : i \in RowsOf(data[k].item_id, data[k].lag)}) = 2

\* the decay argument, a literal n/d, lies outside the open interval (0, 1)
DecayOutside == ~(args.decay[1] > 0 /\ args.decay[1] < args.decay[2])

\* C4, as claimed: a decay outside (0, 1) is rejected when the object is
\* constructed, so the run never gets past construction with it.
C4_DecayRejected == DecayOutside => pc \in {"new", "rejected"}

\* C4, amended: construction rejects no decay; given a decay outside (0, 1),
\* the object holds that decay and the interval it was given, unchecked, and
\* the run goes on with them.
C4_DecayStoredUnchecked ==
    /\ pc # "rejected"
    /\ (DecayOutside /\ pc # "new") =>
           /\ decay = FromRatio(args.decay[1], args.decay[2])
           /\ int_days = args.interval_days

\* a table with a score computed with decay 1.5
C4_Witness ==
    /\ DecayOutside
    /\ pc = "returned"
    /\ \E i \in 1..Len(table) : IsFinite(table[i].trending_score)

SecondRunEnded == prev # <<>> /\ pc \in {"returned", "raised"}

\* C6, as claimed: two runs on the same file with the same decay and interval
\* return the same table, whatever the wall-clock time of each.
C6_SameTableAnyTime ==
    SecondRunEnded => pc = "returned" /\ table = prev[1].table

\* C6, amended: load_data reads the date of the wall clock; two runs on the
\* same file with the same decay and interval return the same table when
\* they read the same date, whatever the time of day.
C6_SameTableSameDate ==
    (SecondRunEnded /\ today = prev[1].today) => pc = "returned" /\ table = prev[1].table

\* a second run later on the same date, with an item scored by rolling_zscore
C6_Witness ==
    /\ SecondRunEnded
    /\ pc = "returned"
    /\ today = prev[1].today
    /\ clock % 2 = 1
    /\ \E i \in 1..Len(table) : IsFinite(table[i].trending_score)

NoFutureBucket == \A k \in 1..Len(data) : data[k].lag <= 0

GroupsOf(item) == {k \in 1..Len(data) : data[k].item_id = item}

\* C8: whenever zvalue calls rolling_zscore, the history vec[:-1] has at least
\* one element; and in a file whose bucket indices are all <= 0, an item that
\* is not given the single-point score makes max_length >= 1.
C8_HistoryNonEmpty ==
    /\ call => Len(AllButLast(vec)) >= 1
    /\ (Loaded /\ csv # <<>> /\ NoFutureBucket
          /\ \E k \in 1..Len(data) : Cardinality(GroupsOf(data[k].item_id)) # 1)
       => max_length >= 1

\* rolling_zscore was called on a file without future events
C8_Witness ==
    /\ pc = "loaded"
    /\ call
    /\ NoFutureBucket
    /\ Len(AllButLast(vec)) >= 1

\* zvalue has run, and for which item last
ZValueRan == pc \in {"returned", "raised"} \/ (pc = "loaded" /\ df_trend # <<>>)

LastItem ==
    IF pc = "raised" THEN item_list[Len(df_trend) + 1] ELSE item_list[Len(df_trend)]

\* the count an item has at position p of its vector, 0 where it has none
CountAt(item, p) ==
    IF \E k \in GroupsOf(item) : max_length + data[k].lag = p
    THEN data[CHOOSE k \in GroupsOf(item) : max_length + data[k].lag = p].user_count
    ELSE 0

BucketsInRange ==
    /\ max_length >= 0
    /\ \A k \in 1..Len(data) :
           data[k].lag <= 0 /\ max_length + data[k].lag \in 0..max_length

VecHolds(item) ==
    /\ Len(vec) = max_length + 1
    /\ \A p \in 0..max_length : vec[p + 1] = CountAt(item, p)

----------------------------------------------------------------------------
(* Properties of rolling_zscore (SpecZ)                                     *)

ScoreOf(v) == rolling_zscore(zdata, <<v>>, zdecay)

\* C5: with the history and the decay fixed and a window of one observed
\* value, the score returned is strictly increasing in that value, in the
\* std == 0 branch and in the divided branch (the run for each observed
\* value is compared with the scores of all larger values).
C5_ScoreIncreasing ==
    (zpc = "done" /\ Len(zwin) = 1) =>
        \A v \in Counts :
            (v > zwin[1] /\ ScoreOf(v).exc = "") => FCmp(zret, ScoreOf(v).val) = -1

\* a score that was divided by a std of 2 or more, with larger values to compare
C5_Witness ==
    /\ zpc = "done"
    /\ Len(zwin) = 1
    /\ zwin[1] < MaxCount
    /\ stds[1].std >= 2

SeedOf == FromInt(zdata[1])

\* C7, as claimed: the std that scores an observed point is
\* round(sqrt(sq_avg - seed^2)), seed the first element of the history.
C7_StdFromSeed ==
    \A k \in 1..Len(stds) :
        LET x == FSub(stds[k].sq, FMul(SeedOf, SeedOf))
        IN  ~FIsNeg(x) /\ stds[k].std = PyRoundSqrt(x)

\* C7, amended: the std that scores an observed point is
\* round(sqrt(sq_avg - avg^2)) with avg the decayed average as the history and
\* the earlier observed points have left it, the same value the point is
\* compared with.
C7_StdFromCurrentAvg ==
    \A k \in 1..Len(stds) :
        LET x == FSub(stds[k].sq, FMul(stds[k].avg, stds[k].avg))
        IN  ~FIsNeg(x) /\ stds[k].std = PyRoundSqrt(x)

\* a point scored with a std of 1 or more after the average left its seed
C7_Witness ==
    /\ Len(stds) >= 1
    /\ stds[1].avg # SeedOf
    /\ stds[1].std >= 1

\* C10: for a non-empty history of counts and a decay in (0, 1), the argument
\* of sqrt is never negative when an observed point is scored, so scoring
\* never raises a math domain error.
C10_RadicandNeverNegative ==
    /\ zpc # "ValueError"
    /\ (zpc = "run" /\ zi > Len(zdata) /\ zj <= Len(zwin))
           => ~FIsNeg(Radicand(avg, squared_average))

====
